---- MODULE Spec2Model ----
(***************************************************************************)
(* The streamable HTTP transport of the Supabase MCP server:               *)
(* src/src/http_transport.py (POST /mcp endpoint, session table, sweep),   *)
(* src/src/transport_base.py (tool lookup and invocation, run() and        *)
(* shutdown()), the tool handlers of src/src/mcp_server.py and the         *)
(* Supabase manager and validators of src/src/database.py.                 *)
(*                                                                         *)
(* Python values are modelled as follows.  An Optional value is a tuple:   *)
(* the empty tuple for None (or a missing header, both falsy) and a        *)
(* non-empty tuple for a value.  A string the code builds with an f-string *)
(* is the tuple of its pieces, so that "contains" is membership of a       *)
(* piece.  An exception is its class name and its text.                    *)
(***************************************************************************)
EXTENDS Integers, Sequences, FiniteSets, TLC

VARIABLES
    sessions,       \* HttpTransport._sessions: session id -> record
    now,            \* asyncio.get_event_loop().time()
    minted,         \* number of uuid.uuid4() values drawn so far
    req,            \* the POST request being answered, NoRequest when none
    world,          \* what the tool body meets while answering req
    resp,           \* the response built for req
    invoked,        \* the tool whose body ran for req, None when none ran
    op,             \* the operation on _sessions that just ran: post, sweep, clear
    pre,            \* _sessions as it was when that operation started
    inflight,       \* requests accepted whose response is not yet sent
    cleanup_task,   \* HttpTransport._cleanup_task: where the sweep loop stands
    should_exit,    \* uvicorn's server.should_exit
    stop_pc,        \* where stop() stands
    server_task,    \* HttpTransport._server_task
    stop_calls,     \* calls of stop() so far
    run_pc,         \* where run() stands
    run_exc,        \* the exception run() is to leave with, None when none
    running,        \* TransportBase._running
    shutdown_event, \* TransportBase._shutdown_event is set
    shutdown_called,\* shutdown() has been called (history)
    touched,        \* per live session, the requests that touched it (history)
    call,           \* arguments of the function under evaluation, NoCall when none
    ret,            \* what it returned
    manager         \* mcp_server.supabase_manager: its client and the calls it saw

vars == <<sessions, now, minted, req, world, resp, invoked, op, pre,
          inflight, cleanup_task, should_exit, stop_pc, server_task, stop_calls,
          run_pc, run_exc, running, shutdown_event, shutdown_called,
          touched, call, ret, manager>>

\* the request being answered and what was built for it
exchange == <<req, world, resp, invoked>>

\* what stop() works on
stopping == <<cleanup_task, should_exit, stop_pc, server_task, stop_calls>>

\* what run() and shutdown() work on
runner == <<run_pc, run_exc, running, shutdown_event, shutdown_called>>

\* the server's lifecycle
lifecycle == <<stopping, runner>>

\* the function under evaluation
evaluation == <<call, ret, manager>>

-----------------------------------------------------------------------------
(* Bounds of the model *)

MaxSessions == 2    \* uuid4 draws per run
MaxRequests == 2    \* requests counted per session
MaxTicks == 2       \* clock advances per run
MaxInflight == 2    \* requests in flight at once
MaxItems == 2       \* items of a dict argument
MaxGets == 2        \* direct get_client() calls per run

-----------------------------------------------------------------------------
(* Python values *)

None == "None"

\* session_timeout of _cleanup_sessions
SessionTimeout == 3600

\* the result length above which _should_stream streams
StreamThreshold == 5000

\* The loop clock is sampled once per timeout: a session is seen idle for
\* no time, for exactly the timeout, and for longer.
ClockStep == SessionTimeout

\* request.headers.get(...) of a missing (or empty) header: falsy
NoSid == <<>>
NoOrigin == <<>>

\* str(uuid.uuid4()): the n-th draw; draws never repeat
Uuid4(n) == <<"uuid4", n>>

\* a token no uuid4 draw produced
FabricatedSid == <<"invalid-session-id", 0>>

\* the base classes of an exception class (Python's hierarchy; pydantic's
\* ValidationError and json's JSONDecodeError derive from ValueError)
Bases(c) ==
    CASE c = "ValidationError" -> {"ValidationError", "ValueError", "Exception"}
      [] c = "JSONDecodeError" -> {"JSONDecodeError", "ValueError", "Exception"}
      [] c = "Exception"       -> {"Exception"}
      [] OTHER                 -> {c, "Exception"}

IsInstance(c, base) == base \in Bases(c)

\* Optional values
Nothing == <<>>
Some(v) == <<v>>

\* outcome of a call: a returned value or a raised exception
Return(v) == [raised |-> None, text |-> <<>>, value |-> Some(v)]
Raise(c, t) == [raised |-> c, text |-> t, value |-> Nothing]

-----------------------------------------------------------------------------
(* Tool registry: TransportBase.get_available_tools *)

\* the tools mcp_server.py registers with @mcp.tool()
RealTools == {"list_tables", "query_table", "describe_table",
              "insert_record", "update_record"}

\* a registered handler that raises, as the transport tests register
MockTools == {"error_tool"}

RegistryList == <<"list_tables", "query_table", "describe_table",
                  "insert_record", "update_record", "error_tool">>

Registry == {RegistryList[i] : i \in 1..Len(RegistryList)}

\* keyword parameters of each handler: required and accepted
Required(method) ==
    CASE method = "list_tables"    -> {}
      [] method = "query_table"    -> {"table_name"}
      [] method = "describe_table" -> {"table_name"}
      [] method = "insert_record"  -> {"table_name", "data"}
      [] method = "update_record"  -> {"table_name", "filters", "updates"}
      [] OTHER                     -> {}

Accepted(method) ==
    CASE method = "query_table" -> {"table_name", "limit", "filters"}
      [] OTHER                  -> Required(method)

\* tools[method](**params) binds: every required name given, no unknown name
\* (a mock accepts any keywords)
Binds(method, keys) ==
    \/ method \in MockTools
    \/ Required(method) \subseteq keys /\ keys \subseteq Accepted(method)

-----------------------------------------------------------------------------
(* Tool handlers: mcp_server.py *)

\* exception classes a backend call or a mock's side_effect raises
HandlerErrors == {"ValueError", "RuntimeError", "TimeoutError", "Exception"}

\* str(e) of such an exception
ExcText == <<"Database error">>

\* lengths of the string a handler returns: up to the streaming threshold, above it
ResultLens == {StreamThreshold, StreamThreshold + 1}

\* What a handler meets when it runs: the outcome of its backend call
\* (rows, no rows, or an exception), of the fallback query describe_table
\* makes after a failed call, and the length of the text it formats.
Worlds ==
    [backend : {"data", "empty"} \cup HandlerErrors,
     fallback : {"data", "empty", "raise"},
     len : ResultLens]

\* the world of a request whose handler body never runs
NoWorld == [backend |-> "data", fallback |-> "data", len |-> StreamThreshold]

\* a value a handler returns: its Python type, its heading and its len()
Value(type, head, n) == [type |-> type, head |-> head, len |-> n]

\* the string a handler returns: its heading and its length
Narrative(head, n) == Value("str", head, n)

\* create_error_response / create_success_response
create_error_response(n) == Narrative("**Error**", n)
create_success_response(n) == Narrative("**Success**", n)

\* what each handler returns when the backend has no rows
EmptyResult(method, n) ==
    CASE method = "list_tables"    -> Narrative("**No accessible tables found**", n)
      [] method = "query_table"    -> Narrative("**No data found**", n)
      [] method = "describe_table" -> create_error_response(n)
      [] OTHER                     -> create_success_response(n)

\* describe_table's inner except: query the table directly
DescribeFallback(w) ==
    IF w.fallback = "data"
    THEN Return(create_success_response(w.len))
    ELSE Return(create_error_response(w.len))

\* the statements inside a handler's outer try
ToolBody(method, w) ==
    CASE method \in MockTools ->
            Raise(w.backend, ExcText)
      [] method = "describe_table" /\ w.backend \in HandlerErrors ->
            DescribeFallback(w)
      [] w.backend \in HandlerErrors ->
            Raise(w.backend, ExcText)
      [] w.backend = "empty" ->
            Return(EmptyResult(method, w.len))
      [] OTHER ->
            Return(create_success_response(w.len))

\* variant: handlers that catch ValueError and RuntimeError only
ExceptClauses_NoCatchAll(method) ==
    IF method \in RealTools THEN <<"ValueError", "RuntimeError">> ELSE <<>>

\* the except clauses of a handler's outer try, in order
ExceptClauses(method) ==
    CASE method = "list_tables"    -> <<"Exception">>
      [] method = "describe_table" -> <<"ValueError", "Exception">>
      [] method \in RealTools      -> <<"ValueError", "RuntimeError", "Exception">>
      [] OTHER                     -> <<>>

\* a handler: its body, and an error narrative for every exception one of
\* its except clauses matches (list_tables' clause runs a fallback whose
\* three branches all return an error narrative)
ToolHandler(method, w) ==
    LET out == ToolBody(method, w)
        clauses == ExceptClauses(method)
    IN  IF out.raised = None
        THEN out
        ELSE IF \E i \in 1..Len(clauses) : IsInstance(out.raised, clauses[i])
             THEN Return(create_error_response(w.len))
             ELSE out

-----------------------------------------------------------------------------
(* TransportBase.invoke_tool *)

\* str(e) of the ValueError raised for an unknown method
NotFoundText(method) ==
    <<"Tool '", method, "' not found. Available tools: ">> \o RegistryList

\* variant: tools[method] looked up without the membership test
invoke_tool_KeyError(method, keys, w) ==
    IF method \notin Registry
    THEN [out |-> Raise("KeyError", <<method>>), ran |-> None]
    ELSE IF ~Binds(method, keys)
         THEN [out |-> Raise("TypeError", <<"unexpected or missing keyword argument">>),
               ran |-> None]
         ELSE [out |-> ToolHandler(method, w), ran |-> method]

\* [out: what invoke_tool returns or raises, ran: the handler whose body ran]
invoke_tool(method, keys, w) ==
    IF method \notin Registry
    THEN [out |-> Raise("ValueError", NotFoundText(method)), ran |-> None]
    ELSE IF ~Binds(method, keys)
         THEN [out |-> Raise("TypeError", <<"unexpected or missing keyword argument">>),
               ran |-> None]
         ELSE [out |-> ToolHandler(method, w), ran |-> method]

-----------------------------------------------------------------------------
(* HTTP transport: http_transport.py *)

\* cors_origins the transport is constructed with
CorsOrigins == {<<"https", "example.com", "">>, <<"https", "app.example.com", "">>}

\* urlparse(origin).hostname of an origin <<scheme, host, port>>
Hostname(origin) == origin[2]

\* variant: only the allow-list admits an origin
_is_valid_origin_AllowListOnly(origin) ==
    IF origin = NoOrigin
    THEN TRUE
    ELSE origin \in CorsOrigins

_is_valid_origin(origin) ==
    IF origin = NoOrigin
    THEN TRUE
    ELSE IF Hostname(origin) \in {"localhost", "127.0.0.1"}
         THEN TRUE
         ELSE origin \in CorsOrigins

\* await request.json(): the parsed body, or JSONDecodeError
RequestJson(r) ==
    IF r.json = "malformed"
    THEN Raise("JSONDecodeError", <<"Expecting value">>)
    ELSE Return(r.json)

\* JsonRpcRequest(**body): ** of a body that is no mapping is a TypeError;
\* pydantic rejects a missing or non-string method and params that are no
\* mapping with a ValidationError; params of null or none are None
JsonRpcRequest(r) ==
    IF r.json # "object"
    THEN Raise("TypeError", <<"argument after ** must be a mapping">>)
    ELSE IF r.method.type # "str" \/ r.params.type \notin {"dict", "missing"}
         THEN Raise("ValidationError", <<"validation error for JsonRpcRequest">>)
         ELSE Return([method |-> r.method.name,
                      params |-> IF r.params.type = "dict" THEN r.params.keys ELSE {},
                      id |-> r.id])

JsonRpcError(code, message, data) ==
    [code |-> code, message |-> message, data |-> data]

\* variant: an error response also carries a result
JsonRpcResponse_ResultWithError(id, result, error) ==
    [jsonrpc |-> "2.0", id |-> id,
     result |-> IF error # Nothing THEN Some(Value("str", "**Error**", 0)) ELSE result,
     error |-> error]

\* model_dump() of a JsonRpcResponse: a field left out is None
JsonRpcResponse(id, result, error) ==
    [jsonrpc |-> "2.0", id |-> id, result |-> result, error |-> error]

\* a response on the wire: its kind, HTTP status, the JSON-RPC responses it
\* carries (the body of a JSONResponse, the events of an SSE stream) and
\* its Mcp-Session-Id header
Response(kind, status, payloads, session) ==
    [kind |-> kind, status |-> status, payloads |-> payloads, session |-> session]

JSONResponse(content, status, session) ==
    Response("json", status, <<content>>, session)

\* variant: a new session is stored without the stats update
_handle_session_Uncounted(sess, header, t, uuid) ==
    IF header # NoSid
    THEN IF header \notin DOMAIN sess
         THEN [sessions |-> sess, session_id |-> NoSid]
         ELSE [sessions |->
                  [sess EXCEPT ![header] =
                      [@ EXCEPT !.requests = @ + 1, !.last_seen = t]],
               session_id |-> header]
    ELSE [sessions |->
              sess @@ (uuid :> [created_at |-> t, requests |-> 0, last_seen |-> t]),
          session_id |-> uuid]

\* variant: a new session is stored as the dict literal leaves it, without
\* the stats update; the sweep reads its missing last_seen as 0
_handle_session_Unstamped(sess, header, t, uuid) ==
    IF header # NoSid
    THEN IF header \notin DOMAIN sess
         THEN [sessions |-> sess, session_id |-> NoSid]
         ELSE [sessions |->
                  [sess EXCEPT ![header] =
                      [@ EXCEPT !.requests = @ + 1, !.last_seen = t]],
               session_id |-> header]
    ELSE [sessions |->
              sess @@ (uuid :> [created_at |-> t, requests |-> 0, last_seen |-> 0]),
          session_id |-> uuid]

\* variant: an id the table does not hold is registered again
_handle_session_Revive(sess, header, t, uuid) ==
    IF header # NoSid
    THEN IF header \notin DOMAIN sess
         THEN [sessions |->
                  sess @@ (header :> [created_at |-> t, requests |-> 1, last_seen |-> t]),
               session_id |-> header]
         ELSE [sessions |->
                  [sess EXCEPT ![header] =
                      [@ EXCEPT !.requests = @ + 1, !.last_seen = t]],
               session_id |-> header]
    ELSE [sessions |->
              sess @@ (uuid :> [created_at |-> t, requests |-> 1, last_seen |-> t]),
          session_id |-> uuid]

\* variant: a known session's record is written anew, not updated
_handle_session_Overwrite(sess, header, t, uuid) ==
    IF header # NoSid
    THEN IF header \notin DOMAIN sess
         THEN [sessions |-> sess, session_id |-> NoSid]
         ELSE [sessions |->
                  [sess EXCEPT ![header] =
                      [created_at |-> @.created_at, requests |-> 1, last_seen |-> t]],
               session_id |-> header]
    ELSE [sessions |->
              sess @@ (uuid :> [created_at |-> t, requests |-> 1, last_seen |-> t]),
          session_id |-> uuid]

\* the table and the session id _handle_session returns; uuid is the value
\* uuid4 would draw
_handle_session(sess, header, t, uuid) ==
    IF header # NoSid
    THEN IF header \notin DOMAIN sess
         THEN [sessions |-> sess, session_id |-> NoSid]
         ELSE [sessions |->
                  [sess EXCEPT ![header] =
                      [@ EXCEPT !.requests = @ + 1, !.last_seen = t]],
               session_id |-> header]
    ELSE [sessions |->
              sess @@ (uuid :> [created_at |-> t, requests |-> 1, last_seen |-> t]),
          session_id |-> uuid]

streaming_methods == {"query_table", "list_tables", "describe_table"}

\* variant: a result of exactly the threshold length streams
_should_stream_AtThreshold(method, result) ==
    IF result.type = "str" /\ result.len >= StreamThreshold
    THEN TRUE
    ELSE IF method \in {"query_table", "list_tables", "describe_table"}
         THEN TRUE
         ELSE FALSE

\* isinstance(result, str)
IsStr(result) == result.type = "str"

_should_stream(method, result) ==
    IF IsStr(result) /\ result.len > StreamThreshold
    THEN TRUE
    ELSE IF method \in streaming_methods
         THEN TRUE
         ELSE FALSE

\* json.dumps accepts strings, lists, dicts and None
JsonSerializable(result) == result.type \in {"str", "list", "dict", "NoneType"}

\* variant: a long result is sent in two events of one half each
event_generator_Chunked(result, request_id) ==
    IF result.len > StreamThreshold
    THEN <<JsonRpcResponse(request_id,
               Some([result EXCEPT !.len = result.len \div 2]), Nothing),
           JsonRpcResponse(request_id,
               Some([result EXCEPT !.len = result.len - result.len \div 2]), Nothing)>>
    ELSE <<JsonRpcResponse(request_id, Some(result), Nothing)>>

\* the events event_generator yields until it ends: the response with the
\* result, or, when dumping it raises, an error event
event_generator(result, request_id) ==
    IF JsonSerializable(result)
    THEN <<JsonRpcResponse(request_id, Some(result), Nothing)>>
    ELSE <<JsonRpcResponse(request_id, Nothing,
               Some(JsonRpcError(-32603, <<"Streaming error: ">>, Nothing)))>>

\* a StreamingResponse over event_generator
_create_sse_response(result, request_id, session_id) ==
    Response("sse", 200, event_generator(result, request_id), session_id)

\* the inner try of mcp_endpoint: invoke the tool and build the response
RouteToTool(rpc, session_id, w) ==
    LET invocation == invoke_tool(rpc.method, rpc.params, w)
        out == invocation.out
    IN  [ran |-> invocation.ran,
         resp |->
           IF out.raised = None
           THEN IF _should_stream(rpc.method, out.value[1])
                THEN _create_sse_response(out.value[1], rpc.id, session_id)
                ELSE JSONResponse(JsonRpcResponse(rpc.id, out.value, Nothing),
                                  200, session_id)
           ELSE IF IsInstance(out.raised, "ValueError")
                THEN JSONResponse(
                        JsonRpcResponse(rpc.id, Nothing,
                            Some(JsonRpcError(-32601, out.text, Nothing))),
                        404, NoSid)
                ELSE JSONResponse(
                        JsonRpcResponse(rpc.id, Nothing,
                            Some(JsonRpcError(-32603,
                                <<"Tool execution failed: ">> \o out.text, Nothing))),
                        500, NoSid)]

\* variant: the outer try without its JSONDecodeError clause
OuterExcept_NoDecodeClause(exc) ==
    IF IsInstance(exc.raised, "ValidationError")
    THEN JSONResponse(
            JsonRpcResponse(Nothing, Nothing,
                Some(JsonRpcError(-32600, <<"Invalid JSON-RPC request">>,
                                  Some("e.errors()")))),
            400, NoSid)
    ELSE Response("unhandled", 500, <<>>, NoSid)

\* the except clauses of mcp_endpoint's outer try; an exception neither
\* matches leaves the endpoint and the server answers 500 without a
\* JSON-RPC body
OuterExcept(exc) ==
    IF IsInstance(exc.raised, "ValidationError")
    THEN JSONResponse(
            JsonRpcResponse(Nothing, Nothing,
                Some(JsonRpcError(-32600, <<"Invalid JSON-RPC request">>,
                                  Some("e.errors()")))),
            400, NoSid)
    ELSE IF IsInstance(exc.raised, "JSONDecodeError")
         THEN JSONResponse(
                 JsonRpcResponse(Nothing, Nothing,
                     Some(JsonRpcError(-32700, <<"Invalid JSON">>, Nothing))),
                 400, NoSid)
         ELSE Response("unhandled", 500, <<>>, NoSid)

\* the outer try of mcp_endpoint: parse, validate, handle the session,
\* route to the tool
HandleBody(r, w, sess, t, uuid) ==
    LET body == RequestJson(r) IN
    IF body.raised # None
    THEN [resp |-> OuterExcept(body), sessions |-> sess, ran |-> None]
    ELSE LET parsed == JsonRpcRequest(r) IN
         IF parsed.raised # None
         THEN [resp |-> OuterExcept(parsed), sessions |-> sess, ran |-> None]
         ELSE LET rpc == parsed.value[1]
                  hs == _handle_session(sess, r.sid, t, uuid)
                  routed == RouteToTool(rpc, hs.session_id, w)
              IN  [resp |-> routed.resp, sessions |-> hs.sessions,
                   ran |-> routed.ran]

\* a rejected request: HTTPException(403) before the body is read
Forbidden(sess) ==
    [resp |-> Response("http_exception", 403, <<>>, NoSid),
     sessions |-> sess, ran |-> None]

\* variant: an unknown session id is refused as an invalid request
mcp_endpoint_StrictSession(r, w, sess, t, uuid) ==
    IF r.origin # NoOrigin /\ ~_is_valid_origin(r.origin)
    THEN Forbidden(sess)
    ELSE IF r.sid # NoSid /\ r.sid \notin DOMAIN sess
         THEN [resp |-> JSONResponse(
                          JsonRpcResponse(Nothing, Nothing,
                              Some(JsonRpcError(-32600, <<"Invalid session">>, Nothing))),
                          400, NoSid),
               sessions |-> sess, ran |-> None]
         ELSE HandleBody(r, w, sess, t, uuid)

\* variant: a request that fails with a server error resets the table
mcp_endpoint_ResetOnError(r, w, sess, t, uuid) ==
    IF r.origin # NoOrigin /\ ~_is_valid_origin(r.origin)
    THEN Forbidden(sess)
    ELSE LET out == HandleBody(r, w, sess, t, uuid)
         IN  IF out.resp.status >= 500
             THEN [out EXCEPT !.sessions = [sid \in {} |-> sess[sid]]]
             ELSE out

\* POST /mcp: [resp, sessions, ran]
mcp_endpoint(r, w, sess, t, uuid) ==
    IF r.origin # NoOrigin /\ ~_is_valid_origin(r.origin)
    THEN Forbidden(sess)
    ELSE HandleBody(r, w, sess, t, uuid)

\* variant: a session expires on reaching the timeout
_cleanup_sessions_AtTimeout(sess, t) ==
    LET expired_sessions ==
            {sid \in DOMAIN sess : t - sess[sid].last_seen >= SessionTimeout}
    IN  [sid \in DOMAIN sess \ expired_sessions |-> sess[sid]]

\* _cleanup_sessions at time t
_cleanup_sessions(sess, t) ==
    LET expired_sessions ==
            {sid \in DOMAIN sess : t - sess[sid].last_seen > SessionTimeout}
    IN  [sid \in DOMAIN sess \ expired_sessions |-> sess[sid]]

-----------------------------------------------------------------------------
(* Requests a client can send *)

Origins == {NoOrigin, <<"http", "localhost", "3000">>, <<"http", "127.0.0.1", "8080">>,
            <<"https", "example.com", "">>, <<"http", "example.com", "">>,
            <<"https", "evil.example", "">>}

\* Mcp-Session-Id headers: none, a fabricated token, any id issued so far
SidHeaders(n) == {NoSid, FabricatedSid} \cup {Uuid4(i) : i \in 1..n}

Str(name) == [type |-> "str", name |-> name]
MethodNumber == [type |-> "int", name |-> "123"]
MethodMissing == [type |-> "missing", name |-> ""]

Dict(keys) == [type |-> "dict", keys |-> keys]
ParamsMissing == [type |-> "missing", keys |-> {}]
ParamsList == [type |-> "list", keys |-> {}]

MethodFields ==
    {Str(m) : m \in Registry \cup {"nonexistent_tool"}}
        \cup {MethodNumber, MethodMissing}

ParamFields ==
    {Dict(Required(m)) : m \in RealTools} \cup {ParamsMissing, ParamsList}

IdFields == {Nothing, Some(1)}

Body(json, method, params, id) ==
    [json |-> json, method |-> method, params |-> params, id |-> id]

\* a body that is no JSON, and one that is JSON but no object
Malformed == Body("malformed", MethodMissing, ParamsMissing, Nothing)
NonObject == Body("non_object", MethodMissing, ParamsMissing, Nothing)

\* every body shape
AllBodies ==
    {Malformed, NonObject}
        \cup {Body("object", m, p, i) :
                m \in MethodFields, p \in ParamFields, i \in IdFields}

\* one body of each kind the endpoint tells apart
FewBodies ==
    {Malformed, NonObject,
     Body("object", MethodNumber, ParamsMissing, Some(1)),
     Body("object", Str("nonexistent_tool"), ParamsMissing, Some(1)),
     Body("object", Str("list_tables"), ParamsMissing, Some(1)),
     Body("object", Str("insert_record"), Dict(Required("insert_record")), Some(1)),
     Body("object", Str("insert_record"), ParamsMissing, Some(1)),
     Body("object", Str("error_tool"), ParamsMissing, Some(1))}

Request(origin, sid, body) ==
    [origin |-> origin, sid |-> sid, json |-> body.json, method |-> body.method,
     params |-> body.params, id |-> body.id]

NoRequest == Request(NoOrigin, NoSid, Body("none", MethodMissing, ParamsMissing, Nothing))
NoResponse == Response("none", 0, <<>>, NoSid)
NoSessions == [sid \in {} |-> [created_at |-> 0, requests |-> 0, last_seen |-> 0]]

\* the handler whose body runs for r, None when none does
Runs(r) == mcp_endpoint(r, NoWorld, NoSessions, 0, Uuid4(0)).ran

\* the worlds that differ for r: none when no handler body runs, the
\* raised class for a mock, the fallback only where describe_table uses it
WorldsFor(r) ==
    LET ran == Runs(r) IN
    IF ran = None
    THEN {NoWorld}
    ELSE IF ran \in MockTools
         THEN {[NoWorld EXCEPT !.backend = c] : c \in HandlerErrors}
         ELSE {w \in Worlds :
                 ~(ran = "describe_table" /\ w.backend \in HandlerErrors) =>
                     w.fallback = NoWorld.fallback}

\* of those, the ones the session table can tell apart
FewWorldsFor(r) ==
    {w \in WorldsFor(r) :
        /\ w.backend \in {"data", "ValueError", "Exception"}
        /\ w.len = NoWorld.len
        /\ w.fallback = NoWorld.fallback}

FewOrigins == {NoOrigin, <<"https", "evil.example", "">>}

-----------------------------------------------------------------------------
(* Requests by what the endpoint is to do with them *)

\* the origins the transport admits: none, loopback, allow-listed
OriginAdmitted(r) ==
    \/ r.origin = NoOrigin
    \/ r.origin[2] \in {"localhost", "127.0.0.1"}
    \/ r.origin \in CorsOrigins

\* the body is a JSON object of the JsonRpcRequest shape
EnvelopeValid(r) ==
    /\ r.json = "object"
    /\ r.method.type = "str"
    /\ r.params.type \in {"dict", "missing"}

WellFormed(r) == OriginAdmitted(r) /\ EnvelopeValid(r)

\* the sessions a request is to touch: the one it names if the table holds
\* it, the one minted for it if it names none
TouchedBy(r, sess, uuid) ==
    IF ~WellFormed(r)
    THEN {}
    ELSE IF r.sid = NoSid THEN {uuid} ELSE {r.sid} \cap DOMAIN sess

\* the history of touches after a request touched the sessions in hit and
\* the table became sess
Touch(hist, hit, sess) ==
    [sid \in DOMAIN sess |->
        (IF sid \in DOMAIN hist THEN hist[sid] ELSE 0)
            + (IF sid \in hit THEN 1 ELSE 0)]

NoTouches == [sid \in {} |-> 0]

NoCall == <<>>

\* SupabaseManager.__init__: no client yet; create_calls and get_calls
\* count the calls of create_client and get_client, got is what the last
\* get_client() returned or raised (history)
NewManager ==
    [client |-> Nothing, create_calls |-> 0, get_calls |-> 0, got |-> Nothing]

-----------------------------------------------------------------------------
(* State machine *)

\* the transport started by a direct call of start(): the server accepts
\* requests and the cleanup task sleeps
Running ==
    /\ sessions = NoSessions
    /\ now = 0
    /\ minted = 0
    /\ req = NoRequest
    /\ world = NoWorld
    /\ resp = NoResponse
    /\ invoked = None
    /\ op = "idle"
    /\ pre = NoSessions
    /\ inflight = 0
    /\ cleanup_task = "sleeping"
    /\ should_exit = FALSE
    /\ stop_pc = "not_called"
    /\ server_task = "serving"
    /\ stop_calls = 0
    /\ run_pc = "direct"
    /\ run_exc = None
    /\ running = FALSE
    /\ shutdown_event = FALSE
    /\ shutdown_called = FALSE
    /\ touched = NoTouches

Init ==
    /\ Running
    /\ call = NoCall
    /\ ret = Nothing
    /\ manager = NewManager

\* the endpoint answers request r in world w: it runs up to the handler's
\* await with the response it will send already determined
Post(r, w) ==
    /\ server_task = "serving"
    /\ ~should_exit
    /\ inflight < MaxInflight
    /\ LET out == mcp_endpoint(r, w, sessions, now, Uuid4(minted + 1))
           drawn == IF Uuid4(minted + 1) \in DOMAIN out.sessions THEN 1 ELSE 0
       IN  /\ minted + drawn <= MaxSessions
           /\ \A sid \in DOMAIN out.sessions :
                  out.sessions[sid].requests <= MaxRequests
           /\ sessions' = out.sessions
           /\ minted' = minted + drawn
           /\ resp' = out.resp
           /\ invoked' = out.ran
           /\ touched' = Touch(touched, TouchedBy(r, sessions, Uuid4(minted + 1)),
                               out.sessions)
    /\ req' = r
    /\ world' = w
    /\ op' = "post"
    /\ pre' = sessions
    /\ inflight' = inflight + 1
    /\ UNCHANGED <<now, lifecycle, evaluation>>

\* the endpoint's locals are dropped
Forget ==
    /\ req' = NoRequest
    /\ world' = NoWorld
    /\ resp' = NoResponse
    /\ invoked' = None
    /\ op' = "idle"
    /\ pre' = NoSessions

\* the response is sent before anything else runs
Deliver ==
    /\ op = "post"
    /\ Forget
    /\ inflight' = inflight - 1
    /\ UNCHANGED <<sessions, now, minted, touched, lifecycle, evaluation>>

\* the handler awaits the backend: the event loop runs other tasks
Suspend ==
    /\ op = "post"
    /\ Forget
    /\ UNCHANGED <<sessions, now, minted, touched, inflight, lifecycle, evaluation>>

\* a suspended request resumes and its response is sent
Complete ==
    /\ op = "idle"
    /\ inflight > 0
    /\ inflight' = inflight - 1
    /\ UNCHANGED <<sessions, now, minted, touched, exchange, op, pre,
                   lifecycle, evaluation>>

\* the loop clock advances
Tick ==
    /\ op = "idle"
    /\ now < MaxTicks * ClockStep
    /\ now' = now + ClockStep
    /\ UNCHANGED <<sessions, minted, touched, exchange, op, pre, inflight,
                   lifecycle, evaluation>>

\* the sweep loop as if an exception of a sweep ended it
_session_cleanup_loop_Fatal(pc, event) ==
    IF event = "CancelledError"
    THEN "cancelled"
    ELSE IF event = "Exception" THEN "failed" ELSE "sleeping"

\* where _session_cleanup_loop stands after an event: it sleeps 300 s
\* before a sweep ("sleeping"); an exception of the sweep is logged and
\* the loop sleeps 60 s ("backoff") before it goes round again; only a
\* cancellation, in either sleep, ends it
_session_cleanup_loop(pc, event) ==
    IF event = "CancelledError"
    THEN "cancelled"
    ELSE IF pc = "sleeping" /\ event = "Exception"
         THEN "backoff"
         ELSE "sleeping"

\* _session_cleanup_loop wakes from its sleep and runs _cleanup_sessions
Sweep ==
    /\ op = "idle"
    /\ cleanup_task = "sleeping"
    /\ sessions' = _cleanup_sessions(sessions, now)
    /\ touched' = Touch(touched, {}, sessions')
    /\ op' = "sweep"
    /\ pre' = sessions
    /\ cleanup_task' = _session_cleanup_loop(cleanup_task, "returned")
    /\ UNCHANGED <<now, minted, exchange, inflight, should_exit, stop_pc,
                   server_task, stop_calls, runner, evaluation>>

\* _session_cleanup_loop wakes from its sleep and the sweep raises before
\* it removes anything
SweepFails ==
    /\ op = "idle"
    /\ cleanup_task = "sleeping"
    /\ op' = "sweep_failed"
    /\ pre' = sessions
    /\ cleanup_task' = _session_cleanup_loop(cleanup_task, "Exception")
    /\ UNCHANGED <<sessions, now, minted, touched, exchange, inflight,
                   should_exit, stop_pc, server_task, stop_calls, runner,
                   evaluation>>

\* _session_cleanup_loop sleeps again; _cleanup_sessions' locals are dropped
Sleep ==
    /\ op \in {"sweep", "sweep_failed"}
    /\ op' = "idle"
    /\ pre' = NoSessions
    /\ UNCHANGED <<sessions, now, minted, touched, exchange, inflight,
                   lifecycle, evaluation>>

\* the sleep after a failed sweep is over: the loop goes round again
Retry ==
    /\ op = "idle"
    /\ cleanup_task = "backoff"
    /\ cleanup_task' = _session_cleanup_loop(cleanup_task, "woke")
    /\ UNCHANGED <<sessions, now, minted, touched, exchange, op, pre, inflight,
                   should_exit, stop_pc, server_task, stop_calls, runner,
                   evaluation>>

\* the except clauses of run(): a KeyboardInterrupt is logged, any other
\* Exception is raised again as a RuntimeError, anything else propagates
run_except(exc) ==
    IF exc = None \/ exc = "KeyboardInterrupt"
    THEN None
    ELSE IF IsInstance(exc, "Exception") THEN "RuntimeError" ELSE exc

\* run() as if the shutdown followed the try statement instead of being
\* its finally clause
run_finally_AfterTry(exc) ==
    IF run_except(exc) = None THEN "finally" ELSE "raised"

\* where run() goes when its try block is left with exc: the finally
\* clause runs whatever happened
run_finally(exc) == "finally"

\* shutdown() as if it signalled a running transport only
shutdown_OnlyWhenRunning(event, is_running) == event \/ is_running

\* shutdown(): self._shutdown_event.set()
shutdown(event, is_running) == TRUE

\* _graceful_shutdown calls stop() when the transport is running; a test
\* calls stop() of a started transport directly
StopCalled ==
    \/ run_pc = "direct"
    \/ run_pc = "finally" /\ running

\* stop(): self._cleanup_task.cancel(), then await self._cleanup_task
\* (when start() created the task)
StopCancelCleanup ==
    /\ op = "idle"
    /\ stop_pc = "not_called"
    /\ StopCalled
    /\ stop_calls' = stop_calls + 1
    /\ run_pc' = IF run_pc = "finally" THEN "stopping" ELSE run_pc
    /\ cleanup_task' = IF cleanup_task = "none"
                       THEN "none"
                       ELSE _session_cleanup_loop(cleanup_task, "CancelledError")
    /\ stop_pc' = "await_cleanup_task"
    /\ UNCHANGED <<sessions, now, minted, touched, exchange, op, pre, inflight,
                   should_exit, server_task, run_exc, running, shutdown_event,
                   shutdown_called, evaluation>>

\* stop(): self.server.should_exit = True, then await self._server_task
\* (when start() created the server)
StopServer ==
    /\ op = "idle"
    /\ stop_pc = "await_cleanup_task"
    /\ should_exit' = (server_task # "none")
    /\ stop_pc' = "await_server_task"
    /\ UNCHANGED <<sessions, now, minted, touched, exchange, op, pre, inflight,
                   cleanup_task, server_task, stop_calls, runner, evaluation>>

\* stop(): the server task ends once no request is in flight, then
\* self._sessions.clear()
StopClear ==
    /\ op = "idle"
    /\ stop_pc = "await_server_task"
    /\ inflight = 0
    /\ server_task' = IF server_task = "none" THEN "none" ELSE "done"
    /\ sessions' = NoSessions
    /\ touched' = NoTouches
    /\ op' = "clear"
    /\ pre' = sessions
    /\ stop_pc' = "stopped"
    /\ UNCHANGED <<now, minted, exchange, inflight, cleanup_task, should_exit,
                   stop_calls, runner, evaluation>>

\* stop(): awaiting the server task raises an Exception; the except clause
\* of stop() logs it and stop() returns
StopServerFails ==
    /\ op = "idle"
    /\ stop_pc = "await_server_task"
    /\ server_task = "serving"
    /\ server_task' = "failed"
    /\ stop_pc' = "stopped"
    /\ UNCHANGED <<sessions, now, minted, touched, exchange, op, pre, inflight,
                   cleanup_task, should_exit, stop_calls, runner, evaluation>>

\* stop(): the task running it is cancelled while it awaits the server
\* task; CancelledError is no Exception and leaves stop()
StopCancelled ==
    /\ op = "idle"
    /\ stop_pc = "await_server_task"
    /\ server_task = "serving"
    /\ stop_pc' = "raised"
    /\ UNCHANGED <<sessions, now, minted, touched, exchange, op, pre, inflight,
                   cleanup_task, should_exit, server_task, stop_calls, runner,
                   evaluation>>

\* shutdown() is called
Shutdown ==
    /\ ~shutdown_called
    /\ run_pc # "direct"
    /\ shutdown_called' = TRUE
    /\ shutdown_event' = shutdown(shutdown_event, running)
    /\ UNCHANGED <<sessions, now, minted, touched, exchange, op, pre, inflight,
                   stopping, run_pc, run_exc, running, evaluation>>

\* run() is called: self._running = True, then await self.start()
RunBegin ==
    /\ run_pc = "not_called"
    /\ running' = TRUE
    /\ run_pc' = "start"
    /\ UNCHANGED <<sessions, now, minted, touched, exchange, op, pre, inflight,
                   stopping, run_exc, shutdown_event, shutdown_called,
                   evaluation>>

\* run() leaves its try block with exception exc, None when it ran through
LeaveTry(exc) ==
    /\ run_exc' = run_except(exc)
    /\ run_pc' = run_finally(exc)
    /\ UNCHANGED <<sessions, now, minted, touched, exchange, op, pre, inflight,
                   stopping, running, shutdown_event, shutdown_called,
                   evaluation>>

\* start() creates the server task and the cleanup task and returns once
\* the server has started; run() awaits the shutdown event
StartOk ==
    /\ run_pc = "start"
    /\ server_task' = "serving"
    /\ cleanup_task' = "sleeping"
    /\ run_pc' = "wait"
    /\ UNCHANGED <<sessions, now, minted, touched, exchange, op, pre, inflight,
                   should_exit, stop_pc, stop_calls, run_exc, running,
                   shutdown_event, shutdown_called, evaluation>>

\* start() raises before it creates a task
StartFails ==
    /\ run_pc = "start"
    /\ LeaveTry("TransportError")

\* the shutdown event is set: self._shutdown_event.wait() returns
RunWake ==
    /\ run_pc = "wait"
    /\ shutdown_event
    /\ LeaveTry(None)

\* run() is interrupted while it waits
Interrupt ==
    /\ run_pc = "wait"
    /\ \E exc \in {"KeyboardInterrupt", "CancelledError"} : LeaveTry(exc)

\* _graceful_shutdown: stop() has returned or raised (an Exception is
\* logged), or was not to be called; finally self._running = False, and
\* run() exits
RunExit ==
    /\ \/ run_pc = "stopping" /\ stop_pc \in {"stopped", "raised"}
       \/ run_pc = "finally" /\ ~running
    /\ running' = FALSE
    /\ run_exc' = IF stop_pc = "raised" THEN "CancelledError" ELSE run_exc
    /\ run_pc' = IF run_exc' = None THEN "returned" ELSE "raised"
    /\ UNCHANGED <<sessions, now, minted, touched, exchange, op, pre, inflight,
                   stopping, shutdown_event, shutdown_called, evaluation>>

\* a request arrives while no operation's locals are live
PostFew ==
    /\ op = "idle"
    /\ \E b \in FewBodies :
         \E w \in FewWorldsFor(Request(NoOrigin, NoSid, b)) :
           \E o \in FewOrigins, sid \in SidHeaders(minted) :
               Post(Request(o, sid, b), w)

PostAny ==
    /\ op = "idle"
    /\ \E b \in AllBodies :
         \E w \in WorldsFor(Request(NoOrigin, NoSid, b)) :
           \E o \in Origins, sid \in SidHeaders(minted) :
               Post(Request(o, sid, b), w)

\* requests of a served, a refused and an undecodable kind
LifeBodies ==
    {Malformed,
     Body("object", Str("nonexistent_tool"), ParamsMissing, Some(1)),
     Body("object", Str("list_tables"), ParamsMissing, Some(1))}

PostLife ==
    /\ op = "idle"
    /\ \E b \in LifeBodies, sid \in SidHeaders(minted) :
           Post(Request(NoOrigin, sid, b), NoWorld)

\* sessions over time: few request shapes, each answered at once, the
\* clock and the sweep
Next == PostFew \/ Deliver \/ Tick \/ Sweep \/ Sleep

Spec == Init /\ [][Next]_vars

\* dispatch: every request shape, the clock at rest
NextDispatch == PostAny \/ Deliver

SpecDispatch == Init /\ [][NextDispatch]_vars

\* the transport's life: requests in flight while others arrive, the
\* sweep, and stop()
NextLife ==
    \/ PostLife \/ Suspend \/ Complete
    \/ Tick \/ Sweep \/ SweepFails \/ Sleep \/ Retry
    \/ StopCancelCleanup \/ StopServer \/ StopClear \/ StopServerFails

SpecLife == Init /\ [][NextLife]_vars

\* the event loop runs every task that is ready: a sleep that is over
\* ends, a suspended handler resumes
SpecLifeFair ==
    /\ SpecLife
    /\ SF_vars(Sweep \/ SweepFails)
    /\ SF_vars(Retry)
    /\ WF_vars(Sleep)
    /\ WF_vars(Suspend)

\* the transport constructed and not started
InitRun ==
    /\ sessions = NoSessions
    /\ now = 0
    /\ minted = 0
    /\ req = NoRequest
    /\ world = NoWorld
    /\ resp = NoResponse
    /\ invoked = None
    /\ op = "idle"
    /\ pre = NoSessions
    /\ inflight = 0
    /\ cleanup_task = "none"
    /\ should_exit = FALSE
    /\ stop_pc = "not_called"
    /\ server_task = "none"
    /\ stop_calls = 0
    /\ run_pc = "not_called"
    /\ run_exc = None
    /\ running = FALSE
    /\ shutdown_event = FALSE
    /\ shutdown_called = FALSE
    /\ touched = NoTouches
    /\ call = NoCall
    /\ ret = Nothing
    /\ manager = NewManager

\* run() from its call to its exit, shutdown() at any time, and the
\* requests served meanwhile
NextRun ==
    \/ Shutdown \/ RunBegin \/ StartOk \/ StartFails \/ RunWake \/ Interrupt
    \/ StopCancelCleanup \/ StopServer \/ StopClear \/ StopServerFails
    \/ StopCancelled \/ RunExit
    \/ PostLife \/ Suspend \/ Complete

SpecRun == InitRun /\ [][NextRun]_vars

\* run() is called; start(), the server task and the handlers in flight
\* terminate; a task that is ready runs
SpecRunFair ==
    /\ SpecRun
    /\ WF_vars(RunBegin)
    /\ WF_vars(StartOk \/ StartFails)
    /\ WF_vars(RunWake)
    /\ SF_vars(StopCancelCleanup)
    /\ SF_vars(StopServer)
    /\ SF_vars(Complete)
    /\ WF_vars(Suspend)
    /\ SF_vars(StopClear \/ StopServerFails \/ StopCancelled)
    /\ WF_vars(RunExit)

-----------------------------------------------------------------------------
(* _should_stream on its own *)

\* results of every kind the streaming decision tells apart: strings
\* around the threshold, and values that are no strings
StreamResults ==
    {Value("str", "**Success**", n) :
        n \in {0, StreamThreshold - 1, StreamThreshold, StreamThreshold + 1,
               StreamThreshold + 1000}}
        \cup {Value("list", "", StreamThreshold + 1000),
              Value("dict", "", 1),
              Value("NoneType", "", 0)}

StreamCalls ==
    [method : Registry \cup {"nonexistent_tool"}, result : StreamResults]

InitStream ==
    /\ Running
    /\ call \in StreamCalls
    /\ ret = Nothing
    /\ manager = NewManager

\* self._should_stream(method, result) is called and returns
ShouldStream ==
    /\ call # NoCall
    /\ ret = Nothing
    /\ ret' = Some(_should_stream(call.method, call.result))
    /\ UNCHANGED <<sessions, now, minted, touched, exchange, op, pre, inflight,
                   lifecycle, call, manager>>

SpecStream == InitStream /\ [][ShouldStream]_vars

-----------------------------------------------------------------------------
(* The tools and the Supabase manager on their own: mcp_server.py, database.py *)

\* MCP_MAX_QUERY_LIMIT when the environment does not set it
DefaultMaxQueryLimit == 1000

\* query_table's limit when none is given
DefaultLimit == 100

\* TableQueryRequest.limit: Field(None, ge=1, le=1000)
LimitGe == 1
LimitLe == 1000

\* validate_column_filters: longest string value it accepts
FilterValueMax == 1000

\* insert_record / update_record: longest string value they accept
DataValueMax == 10000

\* _execute_select: the cap of query.limit
SelectCap == 1000

Min(a, b) == IF a <= b THEN a ELSE b

\* a Python value of a dict argument: a string of a given length, with or
\* without one of the dangerous SQL patterns in it, or an integer
StrValue(n, danger) == [type |-> "str", len |-> n, dangerous |-> danger]
IntValue == [type |-> "int", len |-> 0, dangerous |-> FALSE]

\* the names used below that re.match(r'^[a-zA-Z_][a-zA-Z0-9_]*$') accepts;
\* it rejects "", "bad-name" and "bad col"
Identifiers == {"users", "pg_tables", "name", "description", "status",
                "id", "ID", "created_at", "updated_at"}

IsIdentifier(s) == s \in Identifiers

\* a dict is the sequence of its items [key, value] in insertion order
Keys(d) == {d[i].key : i \in 1..Len(d)}

\* the dicts of at most MaxItems items over the given keys and values
Dicts(keys, values) ==
    {d \in UNION {[1..n -> [key : keys, value : values]] : n \in 0..MaxItems} :
        \A i, j \in 1..Len(d) : d[i].key = d[j].key => i = j}

Valid == [is_valid |-> TRUE, error |-> <<>>]
Invalid(text) == [is_valid |-> FALSE, error |-> text]

\* database.validate_table_name
validate_table_name(table_name) ==
    IF table_name = ""
    THEN Invalid(<<"Table name cannot be empty">>)
    ELSE IF ~IsIdentifier(table_name)
         THEN Invalid(<<"Invalid table name format">>)
         ELSE IF table_name \in {"pg_tables"}   \* starts with a system prefix
              THEN Invalid(<<"Access to system tables/schemas not allowed: ", "pg_">>)
              ELSE Valid

\* validate_column_filters from item i on: the first offending item decides
RECURSIVE validate_items(_, _)
validate_items(d, i) ==
    IF i > Len(d)
    THEN Valid
    ELSE IF ~IsIdentifier(d[i].key)
         THEN Invalid(<<"Invalid column name format: ", d[i].key>>)
         ELSE IF d[i].value.type = "str" /\ d[i].value.dangerous
              THEN Invalid(<<"Potentially dangerous pattern detected in filter: ",
                             d[i].key>>)
              ELSE IF d[i].value.type = "str" /\ d[i].value.len > FilterValueMax
                   THEN Invalid(<<"Filter value too long for column: ", d[i].key>>)
                   ELSE validate_items(d, i + 1)

\* database.validate_column_filters
validate_column_filters(filters) ==
    IF filters = <<>> THEN Valid ELSE validate_items(filters, 1)

\* x or {} of an Optional dict
OrEmpty(x) == IF x = Nothing THEN <<>> ELSE x[1]

\* the table_name field of the request models: min_length=1 and the
\* field validator
TableFieldValid(table_name) == table_name # "" /\ IsIdentifier(table_name)

\* the pydantic request models: the request or a ValidationError
TableQueryRequest(args) ==
    IF /\ TableFieldValid(args.table_name)
       /\ args.limit = Nothing \/ args.limit[1] \in LimitGe..LimitLe
    THEN Return(args)
    ELSE Raise("ValidationError", <<"validation_errors">>)

RecordInsertRequest(args) ==
    IF TableFieldValid(args.table_name) /\ args.data # <<>>
    THEN Return(args)
    ELSE Raise("ValidationError", <<"validation_errors">>)

RecordUpdateRequest(args) ==
    IF TableFieldValid(args.table_name)
    THEN Return(args)
    ELSE Raise("ValidationError", <<"validation_errors">>)

\* mcp_server.create_error_response / create_success_response: the heading,
\* the message and the details
error_text(message, details) == <<"**Error**", message>> \o details
success_text(message) == <<"**Success**", message>>

\* what create_client does when called: returns a client, raises, or
\* returns a falsy value
CreateOutcomes == {"client", "Exception", "falsy"}

\* what the backend does with a query: returns rows, returns none, raises
BackendOutcomes == {"rows", "empty", "APIError"}

\* variant: get_client initialises on every call
get_client_Always(m, outcome) ==
    LET made == IF outcome = "client" THEN Some(m.create_calls + 1) ELSE Nothing
    IN  [client |-> made,
         create_calls |-> m.create_calls + 1,
         get_calls |-> m.get_calls + 1,
         got |-> IF outcome = "Exception"
                 THEN Raise("RuntimeError",
                            <<"Supabase client initialization failed: ">>)
                 ELSE IF made = Nothing
                      THEN Raise("RuntimeError",
                                 <<"Failed to initialize Supabase client">>)
                      ELSE Return(made[1])]

\* SupabaseManager.get_client with initialize: the manager after the call;
\* outcome is what create_client does if it is called. The n-th call of
\* create_client returns client n.
get_client(m, outcome) ==
    LET init == m.client = Nothing
        made == IF ~init
                THEN m.client
                ELSE IF outcome = "client"
                     THEN Some(m.create_calls + 1)
                     ELSE Nothing
    IN  [client |-> made,
         create_calls |-> m.create_calls + (IF init THEN 1 ELSE 0),
         get_calls |-> m.get_calls + 1,
         got |-> IF init /\ outcome = "Exception"
                 THEN Raise("RuntimeError",
                            <<"Supabase client initialization failed: ">>)
                 ELSE IF made = Nothing
                      THEN Raise("RuntimeError",
                                 <<"Failed to initialize Supabase client">>)
                      ELSE Return(made[1])]

\* the keyword arguments of execute_query, and the query the client's
\* table object is asked to execute
Query(operation, table_name, limit, filters, values) ==
    [operation |-> operation, table_name |-> table_name, limit |-> limit,
     filters |-> filters, values |-> values]

\* query.execute(): the rows, or the backend's exception
Execute(q, backend) ==
    [out |-> IF backend = "APIError"
             THEN Raise("APIError", <<"backend error">>)
             ELSE Return(backend),
     sent |-> Some(q)]

Refuse(text) == [out |-> Raise("ValueError", text), sent |-> Nothing]

\* SupabaseManager._execute_select
_execute_select(q, backend) ==
    LET filters == OrEmpty(q.filters)
        validation == validate_column_filters(filters)
        limit == q.limit
    IN  IF filters # <<>> /\ ~validation.is_valid
        THEN Refuse(validation.error)
        ELSE Execute([q EXCEPT !.limit =
                         IF limit # Nothing /\ limit[1] > 0
                         THEN Some(Min(limit[1], SelectCap))
                         ELSE Nothing],
                     backend)

\* SupabaseManager._execute_insert
_execute_insert(q, backend) ==
    IF q.values = <<>>
    THEN Refuse(<<"Data is required for insert operation">>)
    ELSE Execute(q, backend)

\* SupabaseManager._execute_update
_execute_update(q, backend) ==
    LET filters == OrEmpty(q.filters) IN
    IF filters = <<>>
    THEN Refuse(<<"Filters are required for update operation">>)
    ELSE IF q.values = <<>>
         THEN Refuse(<<"Updates are required for update operation">>)
         ELSE IF ~validate_column_filters(filters).is_valid
              THEN Refuse(validate_column_filters(filters).error)
              ELSE IF ~validate_column_filters(q.values).is_valid
                   THEN Refuse(validate_column_filters(q.values).error)
                   ELSE Execute(q, backend)

\* SupabaseManager.execute_query called with the keyword arguments q:
\* [out: what it returns or raises, manager: the manager afterwards,
\*  sent: the query the backend executed, if any]
execute_query(m, q, create, backend) ==
    LET validation == validate_table_name(q.table_name)
        held == get_client(m, create)
        run == CASE q.operation = "select" -> _execute_select(q, backend)
                 [] q.operation = "insert" -> _execute_insert(q, backend)
                 [] OTHER                  -> _execute_update(q, backend)
    IN  IF ~validation.is_valid
        THEN [out |-> Raise("ValueError", validation.error), manager |-> m,
              sent |-> Nothing]
        ELSE IF held.got.raised # None
             THEN [out |-> Raise("RuntimeError",
                                 <<"Database operation failed: ">> \o held.got.text),
                   manager |-> held, sent |-> Nothing]
             ELSE IF run.out.raised = None \/ IsInstance(run.out.raised, "ValueError")
                  THEN [out |-> run.out, manager |-> held, sent |-> run.sent]
                  ELSE [out |-> Raise("RuntimeError",
                                      <<"Database operation failed: ">>
                                          \o run.out.text),
                        manager |-> held, sent |-> run.sent]

\* what a tool leaves behind: the string it returns, the manager, the
\* keyword arguments it called execute_query with and the query the
\* backend executed, if any
Answer(text, m, executed, sent) ==
    [text |-> text, manager |-> m, executed |-> executed, sent |-> sent]

\* the message of the except clause of a tool's outer try that catches c
ExceptMessage(tool, c) ==
    IF IsInstance(c, "ValueError")
    THEN CASE tool = "query_table"   -> "Query validation failed"
           [] tool = "insert_record" -> "Data validation failed"
           [] OTHER                  -> "Update validation failed"
    ELSE IF IsInstance(c, "RuntimeError")
         THEN CASE tool = "query_table"   -> "Database query failed"
                [] tool = "insert_record" -> "Database insertion failed"
                [] OTHER                  -> "Database update failed"
         ELSE CASE tool = "query_table"   -> "Query execution failed"
                [] tool = "insert_record" -> "Record insertion failed"
                [] OTHER                  -> "Record update failed"

\* a tool after its checks: it calls execute_query with q and formats what
\* comes back; none is the string it returns when no row came back
Executes(tool, q, m, args, none, found) ==
    LET result == execute_query(m, q, args.create, args.backend) IN
    IF result.out.raised # None
    THEN Answer(error_text(ExceptMessage(tool, result.out.raised), result.out.text),
                result.manager, Some(q), result.sent)
    ELSE Answer(IF result.out.value = Some("empty") THEN none ELSE found,
                result.manager, Some(q), result.sent)

\* mcp_server.query_table
query_table(args, m) ==
    LET request == TableQueryRequest(args)
        filter_validation == validate_column_filters(OrEmpty(args.filters))
        query_limit ==
            Min(IF args.limit = Nothing \/ args.limit[1] = 0
                THEN DefaultLimit
                ELSE args.limit[1],
                args.max_query_limit)
    IN  IF request.raised # None
        THEN Answer(error_text("Input validation failed", request.text),
                    m, Nothing, Nothing)
        ELSE IF ~filter_validation.is_valid
             THEN Answer(error_text("Filter validation failed",
                                    filter_validation.error),
                         m, Nothing, Nothing)
             ELSE Executes("query_table",
                           Query("select", args.table_name, Some(query_limit),
                                 args.filters, <<>>),
                           m, args,
                           <<"**No data found**">>,
                           success_text("Found record(s) in table"))

\* the first item of d, from item i on, whose value is a string longer
\* than DataValueMax; 0 when there is none
RECURSIVE TooLarge(_, _)
TooLarge(d, i) ==
    IF i > Len(d)
    THEN 0
    ELSE IF d[i].value.type = "str" /\ d[i].value.len > DataValueMax
         THEN i
         ELSE TooLarge(d, i + 1)

\* mcp_server.insert_record
insert_record(args, m) ==
    LET request == RecordInsertRequest(args)
        column_validation == validate_column_filters(args.data)
        large == TooLarge(args.data, 1)
    IN  IF request.raised # None
        THEN Answer(error_text("Input validation failed", request.text),
                    m, Nothing, Nothing)
        ELSE IF args.data = <<>>
             THEN Answer(error_text("No data provided for insertion", <<>>),
                         m, Nothing, Nothing)
             ELSE IF ~column_validation.is_valid
                  THEN Answer(error_text("Invalid column names in data",
                                         column_validation.error),
                              m, Nothing, Nothing)
                  ELSE IF large # 0
                       THEN Answer(error_text("Data value too large for column",
                                              <<args.data[large].key>>),
                                   m, Nothing, Nothing)
                       ELSE Executes("insert_record",
                                     Query("insert", args.table_name, Nothing,
                                           Nothing, args.data),
                                     m, args,
                                     success_text("Record inserted successfully"),
                                     success_text("Record inserted successfully"))

\* variant: only the primary key is protected
dangerous_update_columns_IdOnly == <<"id">>

\* update_record's protected columns, in the order it checks them
dangerous_update_columns == <<"id", "created_at", "updated_at">>

\* the first protected column among the keys of d; 0 when there is none
ProtectedIn(d) ==
    LET hit == {i \in 1..Len(dangerous_update_columns) :
                   dangerous_update_columns[i] \in Keys(d)}
    IN  IF hit = {} THEN 0 ELSE CHOOSE i \in hit : \A j \in hit : i <= j

\* mcp_server.update_record
update_record(args, m) ==
    LET request == RecordUpdateRequest(args)
        filters == OrEmpty(args.filters)
        filter_validation == validate_column_filters(filters)
        update_validation == validate_column_filters(args.updates)
        large == TooLarge(args.updates, 1)
        protected == ProtectedIn(args.updates)
        Reject(message, details) ==
            Answer(error_text(message, details), m, Nothing, Nothing)
    IN  IF request.raised # None
        THEN Reject("Input validation failed", request.text)
        ELSE IF filters = <<>>
        THEN Reject("No filter conditions provided", <<>>)
        ELSE IF args.updates = <<>>
        THEN Reject("No update values provided", <<>>)
        ELSE IF ~filter_validation.is_valid
        THEN Reject("Invalid filter conditions", filter_validation.error)
        ELSE IF ~update_validation.is_valid
        THEN Reject("Invalid update values", update_validation.error)
        ELSE IF large # 0
        THEN Reject("Update value too large for column",
                    <<args.updates[large].key>>)
        ELSE IF protected # 0
        THEN Reject("Cannot update protected column",
                    <<dangerous_update_columns[protected]>>)
        ELSE Executes("update_record",
                      Query("update", args.table_name, Nothing, args.filters,
                            args.updates),
                      m, args,
                      success_text("Update operation completed"),
                      success_text("Successfully updated record(s)"))

\* the arguments of a tool call, and what create_client and the backend
\* do if the call reaches them
ToolCall(tool, table_name, limit, filters, data, updates, max, create, backend) ==
    [tool |-> tool, table_name |-> table_name, limit |-> limit,
     filters |-> filters, data |-> data, updates |-> updates,
     max_query_limit |-> max, create |-> create, backend |-> backend]

\* tables: an ordinary one, a system table, a malformed name
Tables == {"users", "pg_tables", "bad-name"}

\* limits around the bounds of the request model and of the configuration
Limits ==
    {Nothing} \cup {Some(n) : n \in {0, 1, 50, 500, 501, 1000, 1001, 2000}}

\* string values around the two length bounds, a dangerous one, an integer
Values ==
    {StrValue(n, FALSE) : n \in {5, FilterValueMax, FilterValueMax + 1,
                                 DataValueMax, DataValueMax + 1}}
        \cup {StrValue(20, TRUE), IntValue}

\* each set of calls below also draws what create_client and the backend
\* do if the call reaches them

QueryCalls ==
    {ToolCall("query_table", t, l, f, <<>>, <<>>, max, w[1], w[2]) :
        t \in Tables, l \in Limits,
        f \in {Nothing} \cup
                 {Some(d) : d \in Dicts({"status", "bad col"},
                                        {StrValue(5, FALSE), StrValue(20, TRUE),
                                         IntValue})},
        max \in {DefaultMaxQueryLimit, 500},
        w \in {"client", "Exception"} \X BackendOutcomes}

InsertCalls ==
    {ToolCall("insert_record", t, Nothing, Nothing, d, <<>>,
              DefaultMaxQueryLimit, w[1], w[2]) :
        t \in Tables,
        d \in Dicts({"description", "bad col"}, Values),
        w \in {"client", "Exception"} \X BackendOutcomes}

UpdateCalls ==
    {ToolCall("update_record", t, Nothing, Some(f), <<>>, u,
              DefaultMaxQueryLimit, w[1], w[2]) :
        t \in {"users", "bad-name"},
        f \in Dicts({"id", "bad col"}, {IntValue, StrValue(20, TRUE)}),
        u \in Dicts({"name", "id", "created_at", "updated_at", "ID"},
                    {StrValue(5, FALSE), StrValue(DataValueMax + 1, FALSE)}),
        w \in {"client", "Exception"} \X BackendOutcomes}

ToolCalls == QueryCalls \cup InsertCalls \cup UpdateCalls

\* the manager as the server module constructs it, and a tool call to make
InitTools ==
    /\ Running
    /\ call \in ToolCalls
    /\ ret = Nothing
    /\ manager = NewManager

\* the tool returns: what it returned and what it asked of the manager
Returns(out) ==
    /\ ret' = Some([text |-> out.text, executed |-> out.executed,
                    sent |-> out.sent])
    /\ manager' = out.manager
    /\ UNCHANGED <<sessions, now, minted, touched, exchange, op, pre, inflight,
                   lifecycle, call>>

QueryTable ==
    /\ ret = Nothing
    /\ call.tool = "query_table"
    /\ Returns(query_table(call, manager))

InsertRecord ==
    /\ ret = Nothing
    /\ call.tool = "insert_record"
    /\ Returns(insert_record(call, manager))

UpdateRecord ==
    /\ ret = Nothing
    /\ call.tool = "update_record"
    /\ Returns(update_record(call, manager))

\* supabase_manager.get_client() is called on its own
GetClient ==
    /\ manager.get_calls < MaxGets
    /\ \E outcome \in CreateOutcomes : manager' = get_client(manager, outcome)
    /\ UNCHANGED <<sessions, now, minted, touched, exchange, op, pre, inflight,
                   lifecycle, call, ret>>

NextTools == QueryTable \/ InsertRecord \/ UpdateRecord \/ GetClient

SpecTools == InitTools /\ [][NextTools]_vars

-----------------------------------------------------------------------------
(* Vocabulary of the properties *)

\* a request has been answered and its response not yet delivered
Answered == op = "post"

\* the keywords the request passes to the handler
KeysOf(r) == IF r.params.type = "dict" THEN r.params.keys ELSE {}

\* the response is one JSON document carrying a JSON-RPC error with this code
IsError(code, status) ==
    /\ resp.kind = "json"
    /\ resp.status = status
    /\ Len(resp.payloads) = 1
    /\ resp.payloads[1].result = Nothing
    /\ resp.payloads[1].error # Nothing
    /\ resp.payloads[1].error[1].code = code

ErrorMessage == resp.payloads[1].error[1].message

\* text occurs in msg
Contains(msg, text) ==
    \E i \in 1..(Len(msg) - Len(text) + 1) :
        SubSeq(msg, i, i + Len(text) - 1) = text

\* the response carries a string result and no error, with HTTP 200
IsSuccess ==
    /\ resp.kind \in {"json", "sse"}
    /\ resp.status = 200
    /\ Len(resp.payloads) = 1
    /\ resp.payloads[1].error = Nothing
    /\ resp.payloads[1].result # Nothing
    /\ resp.payloads[1].result[1].len \in Nat

\* the handler's body ran and raised
HandlerRaised ==
    /\ invoked # None
    /\ ToolHandler(invoked, world).raised # None

-----------------------------------------------------------------------------
(* Dispatch and error codes *)

\* C1: a well-formed request whose method is no key of the registry is
\* answered with JSON-RPC error -32601 and HTTP 404, the message names the
\* requested tool, and no handler runs.
C1_UnknownMethodNotFound ==
    (Answered /\ WellFormed(req) /\ req.method.name \notin Registry)
        => /\ IsError(-32601, 404)
           /\ Contains(ErrorMessage, <<req.method.name>>)
           /\ invoked = None

C1_Witness ==
    /\ Answered /\ WellFormed(req)
    /\ req.method.name = "nonexistent_tool"
    /\ req.params.type = "dict"
    /\ resp.status = 404

\* C2: when a registered tool's handler raises, the response is JSON-RPC
\* error -32603 with HTTP 500, the message contains the exception's text,
\* and the request's id is echoed.
C2_HandlerErrorIsInternal ==
    (Answered /\ HandlerRaised)
        => /\ IsError(-32603, 500)
           /\ Contains(ErrorMessage, ToolHandler(invoked, world).text)
           /\ resp.payloads[1].id = req.id

\* C3: error -32601 is produced only when the method fails to resolve in
\* the registry, whatever a registered handler raises.
C3_NotFoundOnlyOnLookup ==
    (Answered /\ EnvelopeValid(req) /\ req.method.name \in Registry)
        => ~IsError(-32601, resp.status)

\* C4: each of the five tools, called with arguments matching its
\* signature, returns: whatever the backend does, no exception leaves the
\* handler and the response carries a string result with HTTP 200.
C4_RealToolsNeverError ==
    (/\ Answered /\ WellFormed(req)
     /\ req.method.name \in RealTools
     /\ Required(req.method.name) \subseteq KeysOf(req)
     /\ KeysOf(req) \subseteq Accepted(req.method.name))
        => /\ invoked = req.method.name
           /\ ~HandlerRaised
           /\ IsSuccess

C4_Witness ==
    /\ Answered /\ WellFormed(req)
    /\ req.method.name = "update_record"
    /\ invoked = "update_record"
    /\ world.backend = "TimeoutError"
    /\ IsSuccess

\* C5: a body that is no valid JSON is answered with exactly -32700 and
\* HTTP 400; no tool runs and no session is created.
C5_MalformedJsonParseError ==
    (Answered /\ OriginAdmitted(req) /\ req.json = "malformed")
        => /\ IsError(-32700, 400)
           /\ invoked = None
           /\ sessions = pre

C5_Witness ==
    /\ Answered /\ OriginAdmitted(req) /\ req.json = "malformed"
    /\ req.sid = NoSid
    /\ resp.status = 400

\* C6: a body that is valid JSON but not of the JsonRpcRequest shape
\* (method missing or no string, params no mapping, body no object) is
\* answered with exactly -32600 and HTTP 400; no tool runs and no session
\* is created.
C6_InvalidEnvelopeInvalidRequest ==
    (Answered /\ OriginAdmitted(req) /\ req.json # "malformed" /\ ~EnvelopeValid(req))
        => /\ IsError(-32600, 400)
           /\ invoked = None
           /\ sessions = pre

-----------------------------------------------------------------------------
(* Sessions *)

\* the session records the request added to the table
Created == DOMAIN sessions \ DOMAIN pre

\* C7: a well-formed request without a session header mints a fresh id and
\* adds its record to the table with request count 1; a successful response
\* carries that id in its Mcp-Session-Id header.
C7_NoHeaderMintsSession ==
    (Answered /\ WellFormed(req) /\ req.sid = NoSid)
        => /\ Created = {Uuid4(minted)}
           /\ \A sid \in DOMAIN pre : sessions[sid] = pre[sid]
           /\ sessions[Uuid4(minted)] =
                  [created_at |-> now, requests |-> 1, last_seen |-> now]
           /\ IsSuccess => resp.session = Uuid4(minted)

C7_Witness ==
    /\ Answered /\ WellFormed(req) /\ req.sid = NoSid
    /\ DOMAIN pre # {}
    /\ now > 0
    /\ IsSuccess
    /\ resp.kind = "json"
    /\ resp.session = Uuid4(minted)

\* C8: a request bearing a session id that is in the table gets the same
\* id back in the response header; the record's request count grows by
\* exactly one, its last_seen becomes the current time, and no record is
\* created.
C8_KnownSessionEchoed ==
    (Answered /\ WellFormed(req) /\ req.sid \in DOMAIN pre)
        => /\ resp.session = req.sid
           /\ sessions[req.sid].requests = pre[req.sid].requests + 1
           /\ sessions[req.sid].last_seen = now
           /\ Created = {}

\* C9: a request bearing a session id that is not in the table is treated
\* as bearing none: a new id, different from the supplied one, is minted,
\* its record is created, and the response header carries the new id.
C9_UnknownSessionReplaced ==
    (Answered /\ WellFormed(req) /\ req.sid # NoSid /\ req.sid \notin DOMAIN pre)
        => \E sid \in Created :
              /\ sid # req.sid
              /\ IsSuccess => resp.session = sid

\* C10: an unknown or expired session id never changes the answer: the
\* tool is resolved and run, and the status and JSON-RPC body are built,
\* exactly as for the same request without the header.
C10_UnknownSessionSameAnswer ==
    (Answered /\ req.sid # NoSid /\ req.sid \notin DOMAIN pre)
        => LET bare == mcp_endpoint([req EXCEPT !.sid = NoSid], world, pre, now,
                                    Uuid4(minted + 1))
           IN  /\ resp.kind = bare.resp.kind
               /\ resp.status = bare.resp.status
               /\ resp.payloads = bare.resp.payloads
               /\ invoked = bare.ran

\* an expired id: issued, swept, then presented again, and the tool answers
C10_Witness ==
    /\ Answered /\ WellFormed(req)
    /\ req.sid = Uuid4(1) /\ Uuid4(1) \notin DOMAIN pre
    /\ invoked = "list_tables"
    /\ IsSuccess

-----------------------------------------------------------------------------
(* Expiry *)

\* a sweep has just run
Swept == op = "sweep"

\* C11: a sweep at time now removes exactly the sessions with
\* now - last_seen > 3600 and leaves every other record, one idle for
\* exactly 3600 seconds included, in the table unchanged.
C11_SweepRemovesExactlyExpired ==
    Swept =>
        /\ DOMAIN sessions =
               {sid \in DOMAIN pre : ~(now - pre[sid].last_seen > 3600)}
        /\ \A sid \in DOMAIN sessions : sessions[sid] = pre[sid]

\* one session idle for exactly 3600 seconds kept, one idle longer removed
C11_Witness ==
    /\ Swept
    /\ \E kept \in DOMAIN sessions : now - pre[kept].last_seen = 3600
    /\ \E gone \in DOMAIN pre \ DOMAIN sessions : now - pre[gone].last_seen > 3600

\* C12: whatever the interleaving of requests in flight and sweeps, every
\* touch and every sweep takes effect whole: a live session's request count
\* is the number of requests that touched it since it was created, and no
\* sweep removes a session seen within 3600 seconds of the sweep.
C12_TouchesAndSweepsAtomic ==
    /\ \A sid \in DOMAIN sessions : sessions[sid].requests = touched[sid]
    /\ Swept =>
          \A sid \in DOMAIN pre \ DOMAIN sessions :
              ~(now - pre[sid].last_seen <= 3600)

\* two requests in flight that touched one session, and a sweep that
\* removed another session meanwhile
C12_Witness ==
    /\ Swept
    /\ inflight = 2
    /\ DOMAIN pre # DOMAIN sessions
    /\ \E sid \in DOMAIN sessions :
          /\ touched[sid] = 2
          /\ sessions[sid].last_seen = now

\* the ids issued so far that a sweep or stop() removed from the table
Retired == {Uuid4(i) : i \in 1..minted} \ DOMAIN sessions

\* C13: every id in the table maps to one Session record, and an id that a
\* sweep or stop() removed is never issued again: no later step puts it
\* back into the table or into a response's Mcp-Session-Id header.
C13_RetiredIdsStayRetired ==
    [][/\ \A sid \in DOMAIN sessions' :
              DOMAIN sessions'[sid] = {"created_at", "requests", "last_seen"}
       /\ \A sid \in Retired :
              /\ sid \notin DOMAIN sessions'
              /\ resp'.session # sid]_vars

\* a sweep removed the first id, another session lives, and a request
\* that presents the removed id again is served
C13_Witness ==
    /\ Answered
    /\ req.sid = Uuid4(1)
    /\ Uuid4(1) \in Retired
    /\ Uuid4(2) \in DOMAIN sessions
    /\ IsSuccess

-----------------------------------------------------------------------------
(* Response envelope *)

\* the JSON-RPC responses the answer carries
Payloads == {resp.payloads[i] : i \in 1..Len(resp.payloads)}

C15_IdEchoed ==
    (Answered /\ OriginAdmitted(req) /\ req.json = "object")
        => /\ Payloads # {}
           /\ \A p \in Payloads : p.id = req.id

-----------------------------------------------------------------------------
(* Streaming *)

\* C16: _should_stream(method, result) is true exactly when result is a
\* string longer than 5000 characters or method is one of query_table,
\* list_tables, describe_table; otherwise it is false.
C16_ShouldStreamExactly ==
    ret # Nothing =>
        (ret[1] = TRUE <=>
            \/ call.result.type = "str" /\ call.result.len > 5000
            \/ call.method \in {"query_table", "list_tables", "describe_table"})

\* insert_record with a string of 5001 characters streams
C16_Witness ==
    /\ call # NoCall
    /\ call.method = "insert_record"
    /\ call.result.type = "str"
    /\ call.result.len = 5001
    /\ ret = Some(TRUE)

\* the response is an SSE stream
Streamed == Answered /\ resp.kind = "sse"

\* C17: a streamed response emits exactly one SSE event and ends; the
\* event is the complete JSON-RPC response: the request's id and the whole
\* result the handler returned, in one piece.
C17_OneEventWholeResult ==
    Streamed =>
        /\ Len(resp.payloads) = 1
        /\ resp.payloads[1].id = req.id
        /\ resp.payloads[1].result = ToolHandler(invoked, world).value
        /\ resp.payloads[1].error = Nothing

\* insert_record returns 5001 characters and the response is streamed
C17_Witness ==
    /\ Streamed
    /\ invoked = "insert_record"
    /\ resp.payloads[1].result[1].len = StreamThreshold + 1

-----------------------------------------------------------------------------
(* Origin *)

\* C18: a POST is rejected with HTTP 403 exactly when it carries an Origin
\* whose host is neither localhost nor 127.0.0.1 and whose value is not in
\* the allow-list; without Origin or with a loopback Origin it is accepted;
\* a rejected request runs no tool and leaves the session table unchanged.
C18_ForbiddenExactlyForeignOrigin ==
    Answered =>
        /\ resp.status = 403 <=> ~OriginAdmitted(req)
        /\ ~OriginAdmitted(req) =>
              /\ resp.payloads = <<>>
              /\ invoked = None
              /\ sessions = pre

\* an Origin whose host is allow-listed under another scheme is rejected,
\* though the request names a live session and a registered tool
C18_Witness ==
    /\ Answered
    /\ req.origin = <<"http", "example.com", "">>
    /\ req.sid \in DOMAIN pre
    /\ req.method.name = "list_tables"
    /\ resp.status = 403

-----------------------------------------------------------------------------
(* Isolation of requests *)

\* the session a request may change: the one it names, or the one minted
\* for it when it names none
Own == IF req.sid = NoSid THEN Created ELSE {req.sid}

\* the request was not answered with a result
Failed == Answered /\ resp.status # 200

\* C19: a POST changes at most the record of its own session: every other
\* record is left as it was and at most one record is added; a request
\* that fails (parse error, invalid envelope, unknown tool, handler
\* exception) removes no session and leaves the server accepting requests.
C19_PostChangesOwnSessionOnly ==
    Answered =>
        /\ \A sid \in DOMAIN pre \ Own :
              sid \in DOMAIN sessions /\ sessions[sid] = pre[sid]
        /\ Cardinality(Created) <= 1
        /\ Created \subseteq Own
        /\ Failed => /\ DOMAIN pre \subseteq DOMAIN sessions
                     /\ ~should_exit

\* a handler raises for a request of one session while another session
\* is in the table
C19_Witness ==
    /\ Failed /\ HandlerRaised
    /\ resp.status = 500
    /\ req.sid \in DOMAIN pre
    /\ DOMAIN pre \ Own # {}

-----------------------------------------------------------------------------
(* Shutdown *)

\* C20: stop() first stops the server from accepting requests, then
\* cancels the sweep task, then awaits the requests in flight, and only
\* then clears the session table.
C20_StopOrder ==
    /\ cleanup_task = "cancelled" => should_exit
    /\ op = "clear" =>
          /\ should_exit
          /\ cleanup_task = "cancelled"
          /\ inflight = 0

-----------------------------------------------------------------------------
(* The sweep loop *)

\* C21: an exception raised by a sweep never ends the sweep task: after a
\* failed sweep the loop goes on to attempt a later sweep, and the loop
\* ends only when stop() cancels the task.
C21_SweepLoopSelfHealing ==
    /\ [](cleanup_task \in {"sleeping", "backoff", "cancelled"})
    /\ [](cleanup_task = "cancelled" => stop_calls > 0)
    /\ (cleanup_task = "backoff" /\ op = "idle")
           ~> (op \in {"sweep", "sweep_failed"} \/ cleanup_task = "cancelled")

\* a sweep has failed while the table holds a session, and the loop is
\* in its sleep before the next round
C21_Witness ==
    /\ cleanup_task = "backoff"
    /\ op = "idle"
    /\ sessions # NoSessions
    /\ stop_pc = "not_called"

-----------------------------------------------------------------------------
(* run() and shutdown() *)

\* run() has exited, by returning or by raising
Exited == run_pc \in {"returned", "raised"}

\* C22: however run() ends (shutdown signal, KeyboardInterrupt, failure
\* of start()), stop() is called exactly once before run() exits and
\* is_running is False afterwards, also when stop() itself raises.
C22_StopOnceOnEveryExit ==
    /\ stop_calls <= 1
    /\ Exited => stop_calls = 1 /\ ~running

\* run() was woken by the shutdown signal and stop() raised
C22_Witness ==
    /\ Exited
    /\ shutdown_event
    /\ stop_pc = "raised"
    /\ run_exc = "CancelledError"

\* C23: once shutdown() has been called, before run() starts or while it
\* waits, run() eventually exits with the transport stopped: the signal
\* is never lost.
C23_ShutdownNeverLost ==
    shutdown_called ~> (Exited /\ stop_calls = 1 /\ ~running)

\* shutdown() was called, run() served requests and returned after stop()
\* cleared the table
C23_Witness ==
    /\ run_pc = "returned"
    /\ shutdown_called
    /\ stop_pc = "stopped"
    /\ minted > 0
    /\ sessions = NoSessions

\* C24: when stop() returns the session table is empty and the sweep task
\* no longer runs, also when awaiting the server task raised.
C24_StopLeavesNothing ==
    stop_pc = "stopped" =>
        /\ sessions = NoSessions
        /\ cleanup_task \notin {"sleeping", "backoff"}

-----------------------------------------------------------------------------
(* Session records *)

\* C25: every session created for a request is disclosed to its client:
\* the response carries the created id in its Mcp-Session-Id header, also
\* when the tool lookup or the execution fails (-32601, -32603).
C25_CreatedSessionDisclosed ==
    Answered => \A sid \in Created : resp.session = sid

\* C26: every record in the table has created_at, last_seen and requests,
\* with requests >= 1 and last_seen >= created_at, and the request count
\* of a live session never decreases.
C26_RecordsWellFormed ==
    [][\A sid \in DOMAIN sessions' :
           /\ DOMAIN sessions'[sid] = {"created_at", "requests", "last_seen"}
           /\ sessions'[sid].requests >= 1
           /\ sessions'[sid].last_seen >= sessions'[sid].created_at
           /\ sid \in DOMAIN sessions =>
                  sessions'[sid].requests >= sessions[sid].requests]_vars

\* a sweep evaluated a session created after the clock advanced and one
\* that was touched twice
C26_Witness ==
    /\ Swept
    /\ \E sid \in DOMAIN sessions : sessions[sid].created_at > 0
    /\ \E sid \in DOMAIN sessions :
          /\ sessions[sid].requests = 2
          /\ sessions[sid].last_seen > sessions[sid].created_at

-----------------------------------------------------------------------------
(* Tools and the manager *)

\* the tool under evaluation has returned
Returned(tool) == call # NoCall /\ call.tool = tool /\ ret # Nothing

\* limit or 100
LimitOrDefault(limit) ==
    IF limit = Nothing \/ limit[1] = 0 THEN 100 ELSE limit[1]

\* C27: query_table with a limit above the maximum still executes the
\* backend select, with the limit capped at max_query_limit; for every
\* limit the backend receives min(limit or 100, max_query_limit).
C27_LimitCapped ==
    (/\ Returned("query_table")
     /\ call.table_name = "users"
     /\ call.filters = Nothing
     /\ call.limit = Nothing \/ call.limit[1] >= 1)
        => /\ ret[1].executed # Nothing
           /\ ret[1].executed[1].operation = "select"
           /\ ret[1].executed[1].limit =
                  Some(Min(LimitOrDefault(call.limit), call.max_query_limit))

\* C28: insert_record with a string value longer than 10000 characters
\* returns the 'Data value too large' error for that column, and the
\* backend insert is never called.
C28_LargeValueRejected ==
    (/\ Returned("insert_record")
     /\ call.table_name = "users"
     /\ Keys(call.data) \subseteq Identifiers
     /\ \A i \in 1..Len(call.data) : ~call.data[i].value.dangerous
     /\ \E i \in 1..Len(call.data) :
            call.data[i].value.type = "str" /\ call.data[i].value.len > 10000)
        => /\ Contains(ret[1].text, <<"Data value too large for column">>)
           /\ ret[1].executed = Nothing
           /\ ret[1].sent = Nothing

\* the conditions under which update_record may reach the backend
UpdateAdmissible ==
    /\ OrEmpty(call.filters) # <<>>
    /\ call.updates # <<>>
    /\ validate_column_filters(OrEmpty(call.filters)).is_valid
    /\ validate_column_filters(call.updates).is_valid
    /\ Keys(call.updates) \cap {"id", "created_at", "updated_at"} = {}

\* C29: update_record reaches the backend update only when filters and
\* updates are non-empty, both pass column validation and updates holds
\* no protected column; otherwise it returns an error string and the
\* backend is not called.
C29_UpdateGuarded ==
    Returned("update_record") =>
        /\ ret[1].executed # Nothing => UpdateAdmissible
        /\ ret[1].sent # Nothing => UpdateAdmissible
        /\ ~UpdateAdmissible =>
              /\ ret[1].text[1] = "**Error**"
              /\ ret[1].executed = Nothing
              /\ ret[1].sent = Nothing

\* an update of two columns, one spelled like a protected one in capitals,
\* reached the backend and changed rows
C29_Witness ==
    /\ Returned("update_record")
    /\ Keys(call.updates) = {"name", "ID"}
    /\ ret[1].sent # Nothing
    /\ ret[1].sent[1].operation = "update"
    /\ ret[1].text[1] = "**Success**"

\* C30: across any sequence of get_client() calls the client is created at
\* most once after a creation succeeded and every call returns that
\* client; a failed initialisation raises RuntimeError and stores no
\* client, so that the next call initialises again.
C30_ClientCreatedOnce ==
    [][manager'.get_calls > manager.get_calls =>
          /\ manager.client # Nothing =>
                /\ manager'.client = manager.client
                /\ manager'.create_calls = manager.create_calls
                /\ manager'.got = Return(manager.client[1])
          /\ manager.client = Nothing =>
                /\ manager'.create_calls = manager.create_calls + 1
                /\ \/ /\ manager'.client # Nothing
                      /\ manager'.got = Return(manager'.client[1])
                   \/ /\ manager'.client = Nothing
                      /\ manager'.got.raised = "RuntimeError"]_vars

\* the first creation failed, the second succeeded, and a later call, of
\* a tool, got the client the second creation made
C30_Witness ==
    /\ manager.get_calls = 3
    /\ manager.create_calls = 2
    /\ manager.client = Some(2)
    /\ manager.got = Return(2)
    /\ ret # Nothing
    /\ ret[1].sent # Nothing

====
